---- MODULE Spec2Model ----
(***************************************************************************)
(* The anchor / box geometry and the proposal selection of src/rpn.py:     *)
(* generate_anchors_reference, generate_anchors, encode, decode and the    *)
(* proposal part of build_rpn (boundary filter, decode, zero-area filter,  *)
(* top-k, non-max suppression, gather).                                    *)
(*                                                                         *)
(* Numbers.  Float tensors are modelled by exact arithmetic, so rounding   *)
(* is not part of the model:                                               *)
(*   - a rational is <<n, d>> with d > 0, in lowest terms;                 *)
(*   - a logarithm is [arg, coef], standing for coef * ln(arg), so that    *)
(*     tf.log and tf.exp are real inverses and not the identity;           *)
(*   - a surd is [a, b], standing for a + b * sqrt(2), a and b rational:   *)
(*     the square roots of the aspect ratios 0.5, 1 and 2 live there.      *)
(* An int32 tensor holds rationals of denominator 1.                       *)
(***************************************************************************)
EXTENDS Integers, Sequences, FiniteSets, TLC

(* ----------------------------- bounds ---------------------------------- *)
\* Most anchors (rows of all_anchors / rpn_bbox_pred / all_scores) per image.
MaxAnchors == 2
\* pre_nms_top_n and post_nms_top_n range over 0..MaxTopN.
MaxTopN == 2
\* Feature maps are at most MaxGrid x MaxGrid.
MaxGrid == 3
\* aspect_ratios and scales handed to generate_anchors_reference have at
\* most MaxList entries each.
MaxList == 2
\* encode / decode are applied to at most MaxBoxes rows.
MaxBoxes == 2

(* --------------------------- rationals --------------------------------- *)
Abs(x) == IF x < 0 THEN -x ELSE x

RECURSIVE GCD(_, _)
GCD(a, b) == IF b = 0 THEN a ELSE GCD(b, a % b)

Rat(n, d) ==
    LET g == GCD(Abs(n), Abs(d))
        s == IF d < 0 THEN -1 ELSE 1
    IN  <<(s * n) \div g, (s * d) \div g>>

RInt(n) == <<n, 1>>
RAdd(p, q) == Rat(p[1] * q[2] + q[1] * p[2], p[2] * q[2])
RSub(p, q) == Rat(p[1] * q[2] - q[1] * p[2], p[2] * q[2])
RMul(p, q) == Rat(p[1] * q[1], p[2] * q[2])
RDiv(p, q) == Rat(p[1] * q[2], p[2] * q[1])
RLt(p, q) == p[1] * q[2] < q[1] * p[2]
RLe(p, q) == p[1] * q[2] <= q[1] * p[2]
RMax(p, q) == IF RLt(p, q) THEN q ELSE p
RMin(p, q) == IF RLt(q, p) THEN q ELSE p
RSign(p) == IF p[1] < 0 THEN -1 ELSE IF p[1] > 0 THEN 1 ELSE 0

RECURSIVE RPow(_, _)
RPow(p, n) == IF n = 0 THEN <<1, 1>> ELSE RMul(p, RPow(p, n - 1))

Half == <<1, 2>>
One == <<1, 1>>
Zero == <<0, 1>>

(* --------------------------- logarithms -------------------------------- *)
\* tf.log(r): ln(r), kept symbolic.
Log(r) == [arg |-> r, coef |-> One]
\* l / v and l * v for a logarithm l and a rational v.
LDiv(l, v) == [arg |-> l.arg, coef |-> RDiv(l.coef, v)]
LMul(l, v) == [arg |-> l.arg, coef |-> RMul(l.coef, v)]
\* tf.exp(l): arg ^ coef, for an integral coef (the only ones the model forms).
Exp(l) ==
    IF l.coef[1] >= 0
    THEN RPow(l.arg, l.coef[1] \div l.coef[2])
    ELSE RPow(RDiv(One, l.arg), (-l.coef[1]) \div l.coef[2])

(* ----------------------------- surds ----------------------------------- *)
IsSquare(n) == \E k \in 0..n : k * k = n
ISqrt(n) == CHOOSE k \in 0..n : k * k = n

SRat(r) == [a |-> r, b |-> Zero]
SAdd(s, t) == [a |-> RAdd(s.a, t.a), b |-> RAdd(s.b, t.b)]
SSub(s, t) == [a |-> RSub(s.a, t.a), b |-> RSub(s.b, t.b)]
SNeg(s) == [a |-> RSub(Zero, s.a), b |-> RSub(Zero, s.b)]
SMul(s, t) ==
    [a |-> RAdd(RMul(s.a, t.a), RMul(<<2, 1>>, RMul(s.b, t.b))),
     b |-> RAdd(RMul(s.a, t.b), RMul(s.b, t.a))]
\* 1 / (a + b sqrt 2) = (a - b sqrt 2) / (a^2 - 2 b^2)
SInv(s) ==
    LET n == RSub(RMul(s.a, s.a), RMul(<<2, 1>>, RMul(s.b, s.b)))
    IN  [a |-> RDiv(s.a, n), b |-> RDiv(RSub(Zero, s.b), n)]
SDiv(s, t) == SMul(s, SInv(t))
SSign(s) ==
    LET sa == RSign(s.a)
        sb == RSign(s.b)
    IN  IF sb = 0 THEN sa
        ELSE IF sa = 0 \/ sa = sb THEN sb
        ELSE IF RLt(RMul(<<2, 1>>, RMul(s.b, s.b)), RMul(s.a, s.a)) THEN sa
        ELSE sb
SLe(s, t) == SSign(SSub(s, t)) <= 0
SLt(s, t) == SSign(SSub(s, t)) < 0
SAbs(s) == IF SSign(s) < 0 THEN SNeg(s) ELSE s

\* np.sqrt of a rational that is q^2 or 2 q^2 for a rational q.
Sqrt(r) ==
    IF IsSquare(r[1]) /\ IsSquare(r[2])
    THEN [a |-> <<ISqrt(r[1]), ISqrt(r[2])>>, b |-> Zero]
    ELSE LET h == Rat(r[1], 2 * r[2])
         IN  [a |-> Zero, b |-> <<ISqrt(h[1]), ISqrt(h[2])>>]

\* ndarray.astype(int): truncation toward zero.  The integer part f of |s| is
\* looked for in a window around a + b * 1.414 that holds it when |b| < 1000.
Trunc(s) ==
    LET m == SAbs(s)
        low == (m.a[1] \div m.a[2]) + ((m.b[1] * 1414) \div (m.b[2] * 1000)) - 1
        f == CHOOSE n \in low..(low + 3) :
                 SLe(SRat(RInt(n)), m) /\ SLt(m, SRat(RInt(n + 1)))
    IN  IF SSign(s) < 0 THEN -f ELSE f

(* ------------------------ tensors of boxes ----------------------------- *)
\* A box is <<x_min, y_min, x_max, y_max>>; an (N, 4) tensor is a sequence of
\* boxes.  An int32 tensor holds rationals of denominator 1, so tf.cast to
\* float32 keeps each value.
IntBox(b) == <<RInt(b[1]), RInt(b[2]), RInt(b[3]), RInt(b[4])>>

\* tf.boolean_mask: the rows whose mask entry is TRUE, in their order.
RECURSIVE boolean_mask(_, _)
boolean_mask(tensor, mask) ==
    IF Len(tensor) = 0 THEN <<>>
    ELSE IF Head(mask)
         THEN <<Head(tensor)>> \o boolean_mask(Tail(tensor), Tail(mask))
         ELSE boolean_mask(Tail(tensor), Tail(mask))

\* tf.gather: params[indices[j]] for every j (indices are 1-based here).
gather(params, indices) == [j \in 1..Len(indices) |-> params[indices[j]]]

(* ------------------------------ codec ---------------------------------- *)
get_width_upright(bboxes) ==
    LET n == Len(bboxes)
        width == [i \in 1..n |-> RAdd(RSub(bboxes[i][3], bboxes[i][1]), One)]
        height == [i \in 1..n |-> RAdd(RSub(bboxes[i][4], bboxes[i][2]), One)]
    IN  [width |-> width,
         height |-> height,
         urx |-> [i \in 1..n |-> RAdd(bboxes[i][1], RMul(Half, width[i]))],
         ury |-> [i \in 1..n |-> RAdd(bboxes[i][2], RMul(Half, height[i]))]]

\* variances=None is <<>>; "if variances is None: variances = [1., 1.]".
DefaultVariances(variances) ==
    IF Len(variances) = 0 THEN <<One, One>> ELSE variances

encode(bboxes_, gt_boxes_, variances_) ==
    LET b == get_width_upright(bboxes_)
        g == get_width_upright(gt_boxes_)
        v == DefaultVariances(variances_)
    IN  [i \in 1..Len(bboxes_) |->
            << RDiv(RSub(g.urx[i], b.urx[i]), RMul(b.width[i], v[1])),
               RDiv(RSub(g.ury[i], b.ury[i]), RMul(b.height[i], v[1])),
               LDiv(Log(RDiv(g.width[i], b.width[i])), v[2]),
               LDiv(Log(RDiv(g.height[i], b.height[i])), v[2]) >>]

\* The mutant is decode without the "- 1." of lines 123-124.
decode_no_minus_one(roi, deltas, variances_) ==
    LET r == get_width_upright(roi)
        v == DefaultVariances(variances_)
    IN  [i \in 1..Len(roi) |->
            LET pred_ur_x == RAdd(RMul(RMul(deltas[i][1], r.width[i]), v[1]), r.urx[i])
                pred_ur_y == RAdd(RMul(RMul(deltas[i][2], r.height[i]), v[1]), r.ury[i])
                pred_w == RMul(Exp(LMul(deltas[i][3], v[2])), r.width[i])
                pred_h == RMul(Exp(LMul(deltas[i][4], v[2])), r.height[i])
            IN  << RSub(pred_ur_x, RMul(Half, pred_w)),
                   RSub(pred_ur_y, RMul(Half, pred_h)),
                   RAdd(pred_ur_x, RMul(Half, pred_w)),
                   RAdd(pred_ur_y, RMul(Half, pred_h)) >>]

decode(roi, deltas, variances_) ==
    LET r == get_width_upright(roi)
        v == DefaultVariances(variances_)
    IN  [i \in 1..Len(roi) |->
            LET pred_ur_x == RAdd(RMul(RMul(deltas[i][1], r.width[i]), v[1]), r.urx[i])
                pred_ur_y == RAdd(RMul(RMul(deltas[i][2], r.height[i]), v[1]), r.ury[i])
                pred_w == RMul(Exp(LMul(deltas[i][3], v[2])), r.width[i])
                pred_h == RMul(Exp(LMul(deltas[i][4], v[2])), r.height[i])
            IN  << RSub(pred_ur_x, RMul(Half, pred_w)),
                   RSub(pred_ur_y, RMul(Half, pred_h)),
                   RSub(RAdd(pred_ur_x, RMul(Half, pred_w)), One),
                   RSub(RAdd(pred_ur_y, RMul(Half, pred_h)), One) >>]

\* change_order: (first_min, second_min, first_max, second_max) to
\* (second_min, first_min, second_max, first_max), row by row.
change_order(bboxes_) ==
    [i \in 1..Len(bboxes_) |->
        <<bboxes_[i][2], bboxes_[i][1], bboxes_[i][4], bboxes_[i][3]>>]

(* ------------------- generate_anchors_reference ------------------------ *)
\* np.meshgrid(scales, aspect_ratios) (indexing 'xy': one row per aspect
\* ratio, one column per scale), each grid flattened row-major by reshape(-1).
\* The mutant has one row per scale instead.
meshgrid_scales_outer(scales_, aspect_ratios_) ==
    LET nx == Len(scales_)
        ny == Len(aspect_ratios_)
    IN  [base_scales |->
            [k \in 1..(nx * ny) |-> scales_[((k - 1) \div ny) + 1]],
         base_aspect_ratios |->
            [k \in 1..(nx * ny) |-> aspect_ratios_[((k - 1) % ny) + 1]]]

meshgrid_flat(scales_, aspect_ratios_) ==
    LET nx == Len(scales_)
        ny == Len(aspect_ratios_)
    IN  [base_scales |->
            [k \in 1..(ny * nx) |-> scales_[((k - 1) % nx) + 1]],
         base_aspect_ratios |->
            [k \in 1..(ny * nx) |-> aspect_ratios_[((k - 1) \div nx) + 1]]]

ref_sqrts(base_aspect_ratios_) ==
    [k \in 1..Len(base_aspect_ratios_) |-> Sqrt(base_aspect_ratios_[k])]

ref_heights(base_scales_, aspect_ratio_sqrts_, base_size_) ==
    [k \in 1..Len(base_scales_) |->
        SMul(SMul(SRat(base_scales_[k]), aspect_ratio_sqrts_[k]),
             SRat(RInt(base_size_)))]

ref_widths(base_scales_, aspect_ratio_sqrts_, base_size_) ==
    [k \in 1..Len(base_scales_) |->
        SMul(SDiv(SRat(base_scales_[k]), aspect_ratio_sqrts_[k]),
             SRat(RInt(base_size_)))]

center_xy == SRat(Zero)

\* np.column_stack of the four corner columns.
ref_column_stack(widths_, heights_) ==
    [k \in 1..Len(widths_) |->
        << SSub(center_xy, SMul(SSub(widths_[k], SRat(One)), SRat(Half))),
           SSub(center_xy, SMul(SSub(heights_[k], SRat(One)), SRat(Half))),
           SAdd(center_xy, SMul(SSub(widths_[k], SRat(One)), SRat(Half))),
           SAdd(center_xy, SMul(SSub(heights_[k], SRat(One)), SRat(Half))) >>]

real_heights(anchors_) ==
    [k \in 1..Len(anchors_) |-> Trunc(SSub(anchors_[k][4], anchors_[k][2]))]

real_widths(anchors_) ==
    [k \in 1..Len(anchors_) |-> Trunc(SSub(anchors_[k][3], anchors_[k][1]))]

\* The mutant checks the widths and heights themselves, not the corner
\* differences.
too_small_by_size(anchors_) ==
    \/ \E k \in 1..Len(anchors_) :
          Trunc(SAdd(SSub(anchors_[k][3], anchors_[k][1]), SRat(One))) = 0
    \/ \E k \in 1..Len(anchors_) :
          Trunc(SAdd(SSub(anchors_[k][4], anchors_[k][2]), SRat(One))) = 0

\* "if (real_widths == 0).any() or (real_heights == 0).any()"
too_small(anchors_) ==
    \/ \E k \in 1..Len(anchors_) : real_widths(anchors_)[k] = 0
    \/ \E k \in 1..Len(anchors_) : real_heights(anchors_)[k] = 0

\* The whole function: [raised, anchors]; nothing is returned when it raises.
generate_anchors_reference(base_size_, aspect_ratios_, scales_) ==
    LET grid == meshgrid_flat(scales_, aspect_ratios_)
        sq == ref_sqrts(grid.base_aspect_ratios)
        hs == ref_heights(grid.base_scales, sq, base_size_)
        ws == ref_widths(grid.base_scales, sq, base_size_)
        an == ref_column_stack(ws, hs)
    IN  IF too_small(an)
        THEN [raised |-> TRUE, anchors |-> <<>>]
        ELSE [raised |-> FALSE, anchors |-> an]

(* ------------------------- generate_anchors ---------------------------- *)
anchor_base_size == 256
anchor_ratios == <<Half, One, <<2, 1>>>>
anchor_scales == << <<1, 8>>, <<1, 4>>, Half, One, <<2, 1>> >>
anchor_stride == 16

\* tf.range(n) * anchor_stride
shift_range(n) == [j \in 1..n |-> RInt((j - 1) * anchor_stride)]

\* tf.meshgrid(shift_x, shift_y) and the two tf.reshape(., [-1]): one row per
\* shift_y, one column per shift_x, flattened row-major.
shift_meshgrid(sx, sy) ==
    [shift_x |-> [k \in 1..(Len(sy) * Len(sx)) |-> sx[((k - 1) % Len(sx)) + 1]],
     shift_y |-> [k \in 1..(Len(sy) * Len(sx)) |-> sy[((k - 1) \div Len(sx)) + 1]]]

\* tf.transpose(tf.stack([shift_x, shift_y, shift_x, shift_y], axis=0))
stack_shifts(sx, sy) ==
    [k \in 1..Len(sx) |-> <<sx[k], sy[k], sx[k], sy[k]>>]

\* The ndarray operand of "ndarray + int32 Tensor" is converted to the
\* tensor's dtype: the float64 reference anchors become int32, truncated
\* toward zero (the anchors are later compared with the int32 im_shape,
\* lines 313-318, and lines 170-171 check these integer sizes).
to_int32(anchor_reference_) ==
    [r \in 1..Len(anchor_reference_) |->
        [c \in 1..4 |-> RInt(Trunc(anchor_reference_[r][c]))]]

\* The mutant flattens with the reference anchor as the slower index.
broadcast_add_ref_major(anchor_reference_, shifts_) ==
    LET nr == Len(anchor_reference_)
        ref == to_int32(anchor_reference_)
    IN  [i \in 1..(Len(shifts_) * nr) |->
            LET k == ((i - 1) % Len(shifts_)) + 1
                r == ((i - 1) \div Len(shifts_)) + 1
            IN  [c \in 1..4 |-> RAdd(ref[r][c], shifts_[k][c])]]

\* (1, R, 4) + (S, 1, 4) broadcast to (S, R, 4), then tf.reshape(., (-1, 4)).
broadcast_add(anchor_reference_, shifts_) ==
    LET nr == Len(anchor_reference_)
        ref == to_int32(anchor_reference_)
    IN  [i \in 1..(Len(shifts_) * nr) |->
            LET k == ((i - 1) \div nr) + 1
                r == ((i - 1) % nr) + 1
            IN  [c \in 1..4 |-> RAdd(ref[r][c], shifts_[k][c])]]

(* ----------------------- build_rpn: proposals -------------------------- *)
\* Line 351.  The mutant is a looser threshold.
nms_threshold_loose == <<9, 10>>

nms_threshold == <<7, 10>>

\* Lines 311-321; im_shape is (height, width).  The mutant swaps the two.
anchor_filter_swapped(anchors_, im_shape_) ==
    [i \in 1..Len(anchors_) |->
        /\ RLe(Zero, anchors_[i][1])
        /\ RLe(Zero, anchors_[i][2])
        /\ RLt(anchors_[i][3], RInt(im_shape_[1]))
        /\ RLt(anchors_[i][4], RInt(im_shape_[2]))]

anchor_filter(anchors_, im_shape_) ==
    [i \in 1..Len(anchors_) |->
        /\ RLe(Zero, anchors_[i][1])
        /\ RLe(Zero, anchors_[i][2])
        /\ RLt(anchors_[i][3], RInt(im_shape_[2]))
        /\ RLt(anchors_[i][4], RInt(im_shape_[1]))]

\* Lines 332-336.  The mutant keeps the boxes of area zero.
zero_area_filter_ge(all_proposals_) ==
    [i \in 1..Len(all_proposals_) |->
        RLe(Zero,
            RMul(RMax(RSub(all_proposals_[i][3], all_proposals_[i][1]), Zero),
                 RMax(RSub(all_proposals_[i][4], all_proposals_[i][2]), Zero)))]

zero_area_filter(all_proposals_) ==
    [i \in 1..Len(all_proposals_) |->
        RLt(Zero,
            RMul(RMax(RSub(all_proposals_[i][3], all_proposals_[i][1]), Zero),
                 RMax(RSub(all_proposals_[i][4], all_proposals_[i][2]), Zero)))]

\* Line 353: k = tf.minimum(pre_nms_top_n, tf.shape(unsorted_scores)[0]).
\* The mutant takes every score.
top_k_size_all(pre_nms_top_n_, unsorted_scores_) == Len(unsorted_scores_)

top_k_size(pre_nms_top_n_, unsorted_scores_) ==
    IF pre_nms_top_n_ < Len(unsorted_scores_)
    THEN pre_nms_top_n_ ELSE Len(unsorted_scores_)

\* tf.nn.top_k: the k largest values, largest first; of two equal values the
\* one of lower index comes first.  The indices of the result, in order.
RECURSIVE top_k_from(_, _, _)
top_k_from(values, left, k) ==
    IF k = 0 \/ left = {} THEN <<>>
    ELSE LET best == CHOOSE i \in left : \A j \in left :
                         \/ RLt(values[j], values[i])
                         \/ (values[j] = values[i] /\ i <= j)
         IN  <<best>> \o top_k_from(values, left \ {best}, k - 1)

\* The mutant cuts to the first k values without sorting them.
top_k_first(values, k) ==
    [indices |-> [j \in 1..k |-> j], values |-> [j \in 1..k |-> values[j]]]

top_k(values, k) ==
    LET indices == top_k_from(values, 1..Len(values), k)
    IN  [indices |-> indices, values |-> gather(values, indices)]

\* tf.image.non_max_suppression's overlap test on boxes in its own order
\* (y_min, x_min, y_max, x_max): corner differences, no "+ 1"; a box of no
\* area overlaps nothing; suppression when the IoU is greater than the
\* threshold.
IOUGreaterThanThreshold(bi, bj, iou_threshold) ==
    LET ymin_i == RMin(bi[1], bi[3])
        xmin_i == RMin(bi[2], bi[4])
        ymax_i == RMax(bi[1], bi[3])
        xmax_i == RMax(bi[2], bi[4])
        ymin_j == RMin(bj[1], bj[3])
        xmin_j == RMin(bj[2], bj[4])
        ymax_j == RMax(bj[1], bj[3])
        xmax_j == RMax(bj[2], bj[4])
        area_i == RMul(RSub(ymax_i, ymin_i), RSub(xmax_i, xmin_i))
        area_j == RMul(RSub(ymax_j, ymin_j), RSub(xmax_j, xmin_j))
        intersection_area ==
            RMul(RMax(RSub(RMin(ymax_i, ymax_j), RMax(ymin_i, ymin_j)), Zero),
                 RMax(RSub(RMin(xmax_i, xmax_j), RMax(xmin_i, xmin_j)), Zero))
    IN  IF RLe(area_i, Zero) \/ RLe(area_j, Zero) THEN FALSE
        ELSE RLt(iou_threshold,
                 RDiv(intersection_area,
                      RSub(RAdd(area_i, area_j), intersection_area)))

\* Lines 381-384.  The mutant gathers from the unsorted scores.
gather_scores_unsorted(sorted_top_scores_, unsorted_scores_, selected_indices_) ==
    gather(unsorted_scores_, selected_indices_)

gather_scores(sorted_top_scores_, unsorted_scores_, selected_indices_) ==
    gather(sorted_top_scores_, selected_indices_)

(* ------------------------------ state ---------------------------------- *)
VARIABLES
    pc,
    \* generate_anchors_reference: arguments, locals, what the caller gets
    base_size, aspect_ratios, scales,
    base_scales, base_aspect_ratios, aspect_ratio_sqrts, heights, widths,
    anchors, ref_returned,
    \* generate_anchors: argument, locals, result
    feature_map_shape, anchor_reference, shift_x, shift_y, shifts,
    tiled_anchors,
    \* encode / decode: arguments and results
    bboxes, gt_boxes, variances, targets, decoded,
    \* build_rpn: the tensors of lines 245-384; all_anchors0, rpn_bbox_pred0 and
    \* all_scores0 are the tensors of lines 260, 297 and 303, before lines
    \* 322-326 bind their names to the filtered ones
    im_shape, all_anchors0, rpn_bbox_pred0, all_scores0,
    all_anchors, rpn_bbox_pred, all_scores,
    all_proposals, unsorted_scores, unsorted_proposals,
    pre_nms_top_n, post_nms_top_n,
    sorted_top_proposals, sorted_top_scores,
    proposals_tf_order, candidates, selected_indices,
    proposals, scores

refVars == <<base_size, aspect_ratios, scales, base_scales, base_aspect_ratios,
             aspect_ratio_sqrts, heights, widths, anchors, ref_returned>>
genVars == <<feature_map_shape, anchor_reference, shift_x, shift_y, shifts,
             tiled_anchors>>
codecVars == <<bboxes, gt_boxes, variances, targets, decoded>>
rpnVars == <<im_shape, all_anchors0, rpn_bbox_pred0, all_scores0,
             all_anchors, rpn_bbox_pred, all_scores,
             all_proposals, unsorted_scores, unsorted_proposals,
             pre_nms_top_n, post_nms_top_n,
             sorted_top_proposals, sorted_top_scores,
             proposals_tf_order, candidates, selected_indices,
             proposals, scores>>
vars == <<pc, refVars, genVars, codecVars, rpnVars>>

\* A function that is not running holds nothing.
RefIdle ==
    /\ base_size = 0 /\ aspect_ratios = <<>> /\ scales = <<>>
    /\ base_scales = <<>> /\ base_aspect_ratios = <<>>
    /\ aspect_ratio_sqrts = <<>> /\ heights = <<>> /\ widths = <<>>
    /\ anchors = <<>> /\ ref_returned = <<>>
GenIdle ==
    /\ feature_map_shape = <<>> /\ anchor_reference = <<>>
    /\ shift_x = <<>> /\ shift_y = <<>> /\ shifts = <<>> /\ tiled_anchors = <<>>
CodecIdle ==
    /\ bboxes = <<>> /\ gt_boxes = <<>> /\ variances = <<>>
    /\ targets = <<>> /\ decoded = <<>>
RpnIdle ==
    /\ im_shape = <<>> /\ all_anchors0 = <<>> /\ rpn_bbox_pred0 = <<>>
    /\ all_scores0 = <<>> /\ all_anchors = <<>> /\ rpn_bbox_pred = <<>>
    /\ all_scores = <<>> /\ all_proposals = <<>> /\ unsorted_scores = <<>>
    /\ unsorted_proposals = <<>> /\ pre_nms_top_n = 0 /\ post_nms_top_n = 0
    /\ sorted_top_proposals = <<>> /\ sorted_top_scores = <<>>
    /\ proposals_tf_order = <<>> /\ candidates = {} /\ selected_indices = <<>>
    /\ proposals = <<>> /\ scores = <<>>

SeqsUpTo(S, n) == UNION {[1..m -> S] : m \in 0..n}

(* ---------------- generate_anchors_reference, step by step ------------- *)
BaseSizes == {1, 2, 16}
RatioValues == {Half, One, <<4, 1>>}
ScaleValues == {<<1, 8>>, One, <<2, 1>>}

RefInit ==
    /\ pc = "ref_called"
    /\ base_size \in BaseSizes
    /\ aspect_ratios \in SeqsUpTo(RatioValues, MaxList)
    /\ scales \in SeqsUpTo(ScaleValues, MaxList)
    /\ base_scales = <<>> /\ base_aspect_ratios = <<>>
    /\ aspect_ratio_sqrts = <<>> /\ heights = <<>> /\ widths = <<>>
    /\ anchors = <<>> /\ ref_returned = <<>>
    /\ GenIdle /\ CodecIdle /\ RpnIdle

\* Lines 151-153.
RefMeshgrid ==
    /\ pc = "ref_called"
    /\ base_scales' = meshgrid_flat(scales, aspect_ratios).base_scales
    /\ base_aspect_ratios' = meshgrid_flat(scales, aspect_ratios).base_aspect_ratios
    /\ pc' = "ref_grid"
    /\ UNCHANGED <<base_size, aspect_ratios, scales, aspect_ratio_sqrts,
                   heights, widths, anchors, ref_returned>>
    /\ UNCHANGED <<genVars, codecVars, rpnVars>>

\* Lines 155-157.
RefSizes ==
    /\ pc = "ref_grid"
    /\ aspect_ratio_sqrts' = ref_sqrts(base_aspect_ratios)
    /\ heights' = ref_heights(base_scales, ref_sqrts(base_aspect_ratios), base_size)
    /\ widths' = ref_widths(base_scales, ref_sqrts(base_aspect_ratios), base_size)
    /\ pc' = "ref_sizes"
    /\ UNCHANGED <<base_size, aspect_ratios, scales, base_scales,
                   base_aspect_ratios, anchors, ref_returned>>
    /\ UNCHANGED <<genVars, codecVars, rpnVars>>

\* Lines 160-168.
RefStack ==
    /\ pc = "ref_sizes"
    /\ anchors' = ref_column_stack(widths, heights)
    /\ pc' = "ref_stacked"
    /\ UNCHANGED <<base_size, aspect_ratios, scales, base_scales,
                   base_aspect_ratios, aspect_ratio_sqrts, heights, widths,
                   ref_returned>>
    /\ UNCHANGED <<genVars, codecVars, rpnVars>>

\* Lines 170-180: raise ValueError, or return anchors.
RefCheck ==
    /\ pc = "ref_stacked"
    /\ IF too_small(anchors)
       THEN pc' = "ref_raised" /\ ref_returned' = <<>>
       ELSE pc' = "ref_returned" /\ ref_returned' = <<anchors>>
    /\ UNCHANGED <<base_size, aspect_ratios, scales, base_scales,
                   base_aspect_ratios, aspect_ratio_sqrts, heights, widths,
                   anchors>>
    /\ UNCHANGED <<genVars, codecVars, rpnVars>>

RefNext == RefMeshgrid \/ RefSizes \/ RefStack \/ RefCheck
SpecRef == RefInit /\ [][RefNext]_vars

(* --------------------- generate_anchors, step by step ------------------ *)
MaxBatch == 2

GenInit ==
    /\ pc = "gen_called"
    /\ feature_map_shape \in
          {<<b, h, w, 1024>> : b \in 1..MaxBatch, h \in 1..MaxGrid, w \in 1..MaxGrid}
    /\ anchor_reference = <<>>
    /\ shift_x = <<>> /\ shift_y = <<>> /\ shifts = <<>> /\ tiled_anchors = <<>>
    /\ RefIdle /\ CodecIdle /\ RpnIdle

\* Lines 202-209.
GenReference ==
    /\ pc = "gen_called"
    /\ LET ref == generate_anchors_reference(anchor_base_size, anchor_ratios,
                                             anchor_scales)
       IN  IF ref.raised
           THEN pc' = "gen_raised" /\ anchor_reference' = <<>>
           ELSE pc' = "gen_reference" /\ anchor_reference' = ref.anchors
    /\ UNCHANGED <<feature_map_shape, shift_x, shift_y, shifts, tiled_anchors>>
    /\ UNCHANGED <<refVars, codecVars, rpnVars>>

\* Lines 211-214: grid_width is feature_map_shape[2], grid_height is
\* feature_map_shape[1] (0-based).
GenRanges ==
    /\ pc = "gen_reference"
    /\ shift_x' = shift_range(feature_map_shape[3])
    /\ shift_y' = shift_range(feature_map_shape[2])
    /\ pc' = "gen_ranges"
    /\ UNCHANGED <<feature_map_shape, anchor_reference, shifts, tiled_anchors>>
    /\ UNCHANGED <<refVars, codecVars, rpnVars>>

\* Lines 215-218.
GenMeshgrid ==
    /\ pc = "gen_ranges"
    /\ shift_x' = shift_meshgrid(shift_x, shift_y).shift_x
    /\ shift_y' = shift_meshgrid(shift_x, shift_y).shift_y
    /\ pc' = "gen_meshgrid"
    /\ UNCHANGED <<feature_map_shape, anchor_reference, shifts, tiled_anchors>>
    /\ UNCHANGED <<refVars, codecVars, rpnVars>>

\* Lines 220-225.
GenStack ==
    /\ pc = "gen_meshgrid"
    /\ shifts' = stack_shifts(shift_x, shift_y)
    /\ pc' = "gen_shifts"
    /\ UNCHANGED <<feature_map_shape, anchor_reference, shift_x, shift_y,
                   tiled_anchors>>
    /\ UNCHANGED <<refVars, codecVars, rpnVars>>

\* Lines 229-238.
GenBroadcast ==
    /\ pc = "gen_shifts"
    /\ tiled_anchors' = broadcast_add(anchor_reference, shifts)
    /\ pc' = "gen_returned"
    /\ UNCHANGED <<feature_map_shape, anchor_reference, shift_x, shift_y, shifts>>
    /\ UNCHANGED <<refVars, codecVars, rpnVars>>

GenNext == GenReference \/ GenRanges \/ GenMeshgrid \/ GenStack \/ GenBroadcast
SpecGen == GenInit /\ [][GenNext]_vars

(* --------------------------- encode, decode ---------------------------- *)
CodecAnchors ==
    { IntBox(<<0, 0, 10, 10>>), IntBox(<<2, 3, 5, 9>>),
      <<<<-31, 2>>, <<-31, 2>>, <<31, 2>>, <<31, 2>>>> }
CodecBoxes ==
    { IntBox(<<0, 0, 10, 10>>), IntBox(<<4, 1, 4, 1>>), IntBox(<<1, 2, 8, 3>>),
      <<Half, <<3, 1>>, <<7, 2>>, <<8, 1>>>> }
CodecVariances == { <<>>, <<<<1, 10>>, <<1, 5>>>> }

CodecInit ==
    /\ pc = "codec_called"
    /\ \E n \in 0..MaxBoxes :
          /\ bboxes \in [1..n -> CodecAnchors]
          /\ gt_boxes \in [1..n -> CodecBoxes]
    /\ variances \in CodecVariances
    /\ targets = <<>> /\ decoded = <<>>
    /\ RefIdle /\ GenIdle /\ RpnIdle

Encode ==
    /\ pc = "codec_called"
    /\ targets' = encode(bboxes, gt_boxes, variances)
    /\ pc' = "encoded"
    /\ UNCHANGED <<bboxes, gt_boxes, variances, decoded>>
    /\ UNCHANGED <<refVars, genVars, rpnVars>>

Decode ==
    /\ pc = "encoded"
    /\ decoded' = decode(bboxes, targets, variances)
    /\ pc' = "decoded"
    /\ UNCHANGED <<bboxes, gt_boxes, variances, targets>>
    /\ UNCHANGED <<refVars, genVars, rpnVars>>

CodecNext == Encode \/ Decode
SpecCodec == CodecInit /\ [][CodecNext]_vars

(* ------------------- build_rpn: proposals, step by step ---------------- *)
\* The image is 12 rows by 14 columns: im_shape = tf.shape(inputs)[1:3].
ImShapes == { <<12, 14>> }
AnchorBoxes ==
    { IntBox(<<0, 0, 10, 10>>), IntBox(<<0, 0, 10, 7>>),
      IntBox(<<0, 0, 10, 12>>), IntBox(<<-1, 0, 10, 7>>) }
\* Rows of rpn_bbox_pred: (dx, dy, dw, dh).
BboxPreds ==
    { <<Zero, Zero, Log(One), Log(One)>>,
      <<Zero, Zero, Log(<<1, 11>>), Log(One)>>,
      <<<<1, 11>>, Zero, Log(One), Log(<<10, 11>>)>> }
Scores == { Half, <<9, 10>> }

RpnInit ==
    /\ pc = "rpn_outputs"
    /\ im_shape \in ImShapes
    /\ \E n \in 0..MaxAnchors :
          /\ all_anchors0 \in [1..n -> AnchorBoxes]
          /\ rpn_bbox_pred0 \in [1..n -> BboxPreds]
          /\ all_scores0 \in [1..n -> Scores]
    /\ all_anchors = all_anchors0
    /\ rpn_bbox_pred = rpn_bbox_pred0
    /\ all_scores = all_scores0
    /\ pre_nms_top_n = 0 /\ post_nms_top_n = 0
    /\ all_proposals = <<>> /\ unsorted_scores = <<>> /\ unsorted_proposals = <<>>
    /\ sorted_top_proposals = <<>> /\ sorted_top_scores = <<>>
    /\ proposals_tf_order = <<>> /\ candidates = {} /\ selected_indices = <<>>
    /\ proposals = <<>> /\ scores = <<>>
    /\ RefIdle /\ GenIdle /\ CodecIdle

\* Lines 305-326.
FilterOutsideAnchors ==
    /\ pc = "rpn_outputs"
    /\ all_anchors' = boolean_mask(all_anchors, anchor_filter(all_anchors, im_shape))
    /\ rpn_bbox_pred' = boolean_mask(rpn_bbox_pred, anchor_filter(all_anchors, im_shape))
    /\ all_scores' = boolean_mask(all_scores, anchor_filter(all_anchors, im_shape))
    /\ pc' = "filtered"
    /\ UNCHANGED <<im_shape, all_anchors0, rpn_bbox_pred0, all_scores0,
                   all_proposals, unsorted_scores, unsorted_proposals,
                   pre_nms_top_n, post_nms_top_n, sorted_top_proposals,
                   sorted_top_scores, proposals_tf_order, candidates,
                   selected_indices, proposals, scores>>
    /\ UNCHANGED <<refVars, genVars, codecVars>>

\* Line 329.
DecodeProposals ==
    /\ pc = "filtered"
    /\ all_proposals' = decode(all_anchors, rpn_bbox_pred, <<>>)
    /\ pc' = "decoded_proposals"
    /\ UNCHANGED <<im_shape, all_anchors0, rpn_bbox_pred0, all_scores0,
                   all_anchors, rpn_bbox_pred, all_scores,
                   unsorted_scores, unsorted_proposals,
                   pre_nms_top_n, post_nms_top_n, sorted_top_proposals,
                   sorted_top_scores, proposals_tf_order, candidates,
                   selected_indices, proposals, scores>>
    /\ UNCHANGED <<refVars, genVars, codecVars>>

\* Lines 331-346.
FilterZeroArea ==
    /\ pc = "decoded_proposals"
    /\ unsorted_scores' = boolean_mask(all_scores, zero_area_filter(all_proposals))
    /\ unsorted_proposals' = boolean_mask(all_proposals, zero_area_filter(all_proposals))
    /\ pc' = "unsorted"
    /\ UNCHANGED <<im_shape, all_anchors0, rpn_bbox_pred0, all_scores0,
                   all_anchors, rpn_bbox_pred, all_scores, all_proposals,
                   pre_nms_top_n, post_nms_top_n, sorted_top_proposals,
                   sorted_top_scores, proposals_tf_order, candidates,
                   selected_indices, proposals, scores>>
    /\ UNCHANGED <<refVars, genVars, codecVars>>

\* Lines 348-357.  The source sets pre_nms_top_n = 12000 and post_nms_top_n =
\* 2000 here; the model lets each be any of 0..MaxTopN, so that a handful of
\* candidates is enough to be cut by either.
TopK ==
    /\ pc = "unsorted"
    /\ pre_nms_top_n' \in 0..MaxTopN
    /\ post_nms_top_n' \in 0..MaxTopN
    /\ LET k == top_k_size(pre_nms_top_n', unsorted_scores)
           top == top_k(unsorted_scores, k)
       IN  /\ sorted_top_proposals' = gather(unsorted_proposals, top.indices)
           /\ sorted_top_scores' = top.values
    /\ pc' = "sorted"
    /\ UNCHANGED <<im_shape, all_anchors0, rpn_bbox_pred0, all_scores0,
                   all_anchors, rpn_bbox_pred, all_scores, all_proposals,
                   unsorted_scores, unsorted_proposals, proposals_tf_order,
                   candidates, selected_indices, proposals, scores>>
    /\ UNCHANGED <<refVars, genVars, codecVars>>

\* Line 362, and tf.image.non_max_suppression taking its arguments (lines
\* 365-370): every box is a candidate, none is selected.
NmsCall ==
    /\ pc = "sorted"
    /\ proposals_tf_order' = change_order(sorted_top_proposals)
    /\ candidates' = 1..Len(sorted_top_scores)
    /\ selected_indices' = <<>>
    /\ pc' = "nms"
    /\ UNCHANGED <<im_shape, all_anchors0, rpn_bbox_pred0, all_scores0,
                   all_anchors, rpn_bbox_pred, all_scores, all_proposals,
                   unsorted_scores, unsorted_proposals,
                   pre_nms_top_n, post_nms_top_n, sorted_top_proposals,
                   sorted_top_scores, proposals, scores>>
    /\ UNCHANGED <<refVars, genVars, codecVars>>

\* One round of tf.image.non_max_suppression: while fewer than
\* max_output_size (post_nms_top_n) boxes are selected and candidates are
\* left, take a candidate of the highest score and select it unless it
\* overlaps a selected box by more than iou_threshold.  Which of several
\* candidates of one score comes first is not part of the operation's
\* contract: any of them may.
NmsStep ==
    /\ pc = "nms"
    /\ candidates # {}
    /\ Len(selected_indices) < post_nms_top_n
    /\ \E c \in candidates :
          /\ \A d \in candidates : RLe(sorted_top_scores[d], sorted_top_scores[c])
          /\ candidates' = candidates \ {c}
          /\ selected_indices' =
                IF \E j \in 1..Len(selected_indices) :
                      IOUGreaterThanThreshold(proposals_tf_order[c],
                          proposals_tf_order[selected_indices[j]], nms_threshold)
                THEN selected_indices
                ELSE Append(selected_indices, c)
    /\ UNCHANGED <<pc, im_shape, all_anchors0, rpn_bbox_pred0, all_scores0,
                   all_anchors, rpn_bbox_pred, all_scores, all_proposals,
                   unsorted_scores, unsorted_proposals,
                   pre_nms_top_n, post_nms_top_n, sorted_top_proposals,
                   sorted_top_scores, proposals_tf_order, proposals, scores>>
    /\ UNCHANGED <<refVars, genVars, codecVars>>

\* tf.image.non_max_suppression returns; lines 374-384.
GatherSelected ==
    /\ pc = "nms"
    /\ (candidates = {} \/ Len(selected_indices) >= post_nms_top_n)
    /\ proposals' = change_order(gather(proposals_tf_order, selected_indices))
    /\ scores' = gather_scores(sorted_top_scores, unsorted_scores, selected_indices)
    /\ pc' = "done"
    /\ UNCHANGED <<im_shape, all_anchors0, rpn_bbox_pred0, all_scores0,
                   all_anchors, rpn_bbox_pred, all_scores, all_proposals,
                   unsorted_scores, unsorted_proposals,
                   pre_nms_top_n, post_nms_top_n, sorted_top_proposals,
                   sorted_top_scores, proposals_tf_order, candidates,
                   selected_indices>>
    /\ UNCHANGED <<refVars, genVars, codecVars>>

Init == RpnInit
Next ==
    \/ FilterOutsideAnchors
    \/ DecodeProposals
    \/ FilterZeroArea
    \/ TopK
    \/ NmsCall
    \/ NmsStep
    \/ GatherSelected
Spec == Init /\ [][Next]_vars

(* ============================ properties =============================== *)
\* What the properties measure, written from the statements and not from the
\* operators above.
ClaimThreshold == <<7, 10>>
Range(f) == {f[i] : i \in DOMAIN f}

\* Intersection over union of two boxes <<x_min, y_min, x_max, y_max>>, areas
\* taken from the corner differences.
ClaimArea(p) == RMul(RSub(p[3], p[1]), RSub(p[4], p[2]))
ClaimIntersection(p, q) ==
    RMul(RMax(Zero, RSub(RMin(p[3], q[3]), RMax(p[1], q[1]))),
         RMax(Zero, RSub(RMin(p[4], q[4]), RMax(p[2], q[2]))))
ClaimIoU(p, q) ==
    LET i == ClaimIntersection(p, q)
        u == RSub(RAdd(ClaimArea(p), ClaimArea(q)), i)
    IN  IF u = Zero THEN Zero ELSE RDiv(i, u)

\* Inclusive width and height, x_max - x_min + 1 and y_max - y_min + 1.
InclusiveWidth(b) == RAdd(RSub(b[3], b[1]), One)
InclusiveHeight(b) == RAdd(RSub(b[4], b[2]), One)
InclusiveSizePositive(b) ==
    RLt(Zero, InclusiveWidth(b)) /\ RLt(Zero, InclusiveHeight(b))
CornerDifferencesPositive(b) == RLt(b[1], b[3]) /\ RLt(b[2], b[4])

\* The anchor lies within [0, image_width) x [0, image_height).
InsideImage(b) ==
    /\ RLe(Zero, b[1]) /\ RLe(Zero, b[2])
    /\ RLt(b[3], RInt(im_shape[2])) /\ RLt(b[4], RInt(im_shape[1]))

\* decode of the one row i of the tensors build_rpn starts from.
DecodedRow(i) == decode(<<all_anchors0[i]>>, <<rpn_bbox_pred0[i]>>, <<>>)[1]

AfterZeroAreaFilter == pc \in {"unsorted", "sorted", "nms", "done"}
AfterBoundaryFilter ==
    pc \in {"filtered", "decoded_proposals", "unsorted", "sorted", "nms", "done"}

(* ------------------------------- C1 ------------------------------------ *)
\* C1, as stated: every two distinct proposals of the NMS output have an IoU
\* strictly below nms_threshold (0.7), a pair at exactly 0.7 included.
C1_StrictlyBelowThreshold ==
    pc = "done" =>
        \A i, j \in 1..Len(proposals) :
            i # j => RLt(ClaimIoU(proposals[i], proposals[j]), ClaimThreshold)

\* C1, amended: every two distinct proposals of the NMS output have an IoU
\* (areas from corner differences, as the NMS routine takes them) of at most
\* nms_threshold (0.7): a pair at exactly the threshold is kept.
C1_AtMostThreshold ==
    pc = "done" =>
        \A i, j \in 1..Len(proposals) :
            i # j => RLe(ClaimIoU(proposals[i], proposals[j]), ClaimThreshold)

\* C1, witness: two proposals come out of NMS whose IoU is exactly 0.7.
C1_Witness ==
    /\ pc = "done"
    /\ \E i, j \in 1..Len(proposals) :
          i # j /\ ClaimIoU(proposals[i], proposals[j]) = ClaimThreshold

(* ------------------------------- C2 ------------------------------------ *)
\* The proposals that survive the boundary filter and the degenerate filter:
\* all_proposals are the decoded survivors of the first.
NumCandidates ==
    Cardinality({i \in 1..Len(all_proposals) :
        CornerDifferencesPositive(all_proposals[i])})

Min3(a, b, c) ==
    IF a <= b /\ a <= c THEN a ELSE IF b <= c THEN b ELSE c

\* C2: the pipeline returns as many boxes as scores, at most
\* min(post_nms_top_n, pre_nms_top_n, num_candidates) of them; a top-N of zero
\* or no surviving candidate gives an empty output (the run ends at "done",
\* never in an error).
C2_OutputSizeBound ==
    pc = "done" =>
        /\ Len(scores) = Len(proposals)
        /\ Len(proposals) <= Min3(post_nms_top_n, pre_nms_top_n, NumCandidates)

\* C2, witness: two candidates survive the filters and do not overlap too
\* much, pre_nms_top_n = 1 lets one of them into NMS, and one comes out.
C2_Witness ==
    /\ pc = "done"
    /\ NumCandidates = 2 /\ pre_nms_top_n = 1 /\ post_nms_top_n = 2
    /\ Len(proposals) = 1
    /\ RLt(ClaimIoU(unsorted_proposals[1], unsorted_proposals[2]), ClaimThreshold)

(* ------------------------------- C3 ------------------------------------ *)
\* C3: decode(A, encode(A, B)) is B, row by row and corner by corner, for
\* boxes of positive inclusive width and height and the same variances in
\* both calls (exact arithmetic).
C3_RoundTrip == pc = "decoded" => decoded = gt_boxes

\* C3, witness: a round trip of two rows with variances given, the boxes
\* differing from their anchors.
C3_Witness ==
    /\ pc = "decoded"
    /\ Len(gt_boxes) = 2 /\ variances # <<>>
    /\ gt_boxes[1] # bboxes[1] /\ gt_boxes[2] # bboxes[2]
    /\ gt_boxes[1] # gt_boxes[2]

(* ------------------------------- C4 ------------------------------------ *)
\* C4, as stated: no output proposal has a non-positive inclusive width or
\* height, and the filter drops a decoded proposal only when its inclusive
\* width or height is <= 0.
C4_DroppedOnlyWhenNonPositive ==
    /\ pc = "done" => \A j \in 1..Len(proposals) : InclusiveSizePositive(proposals[j])
    /\ AfterZeroAreaFilter =>
          unsorted_proposals = SelectSeq(all_proposals, InclusiveSizePositive)

\* C4, amended: no output proposal has a non-positive inclusive width or
\* height, and the filter drops a decoded proposal exactly when x_max - x_min
\* <= 0 or y_max - y_min <= 0, that is when its inclusive width or height is
\* <= 1.
C4_DroppedWhenCornerDifferenceNonPositive ==
    /\ pc = "done" => \A j \in 1..Len(proposals) : InclusiveSizePositive(proposals[j])
    /\ AfterZeroAreaFilter =>
          unsorted_proposals = SelectSeq(all_proposals, CornerDifferencesPositive)

\* C4, witness: the filter has dropped a proposal of inclusive width 1 and
\* kept another.
C4_Witness ==
    /\ pc = "unsorted"
    /\ Len(unsorted_proposals) = 1 /\ Len(all_proposals) = 2
    /\ \E i \in 1..2 : InclusiveWidth(all_proposals[i]) = One

(* ------------------------------- C5 ------------------------------------ *)
KeptAnchors == {i \in 1..Len(all_anchors0) : InsideImage(all_anchors0[i])}
\* The j-th index of K, in increasing order.
IndexIn(K, j) == CHOOSE i \in K : Cardinality({k \in K : k < i}) = j - 1

\* C5: the boundary filter keeps exactly the indices i with 0 <= x_min,
\* 0 <= y_min, x_max < image_width, y_max < image_height, in their order, and
\* makes the same selection in the anchors, the offsets and the scores.
C5_BoundaryFilter ==
    AfterBoundaryFilter =>
        LET K == KeptAnchors
            n == Cardinality(K)
        IN  /\ Len(all_anchors) = n
            /\ Len(rpn_bbox_pred) = n
            /\ Len(all_scores) = n
            /\ \A j \in 1..n :
                  LET i == IndexIn(K, j)
                  IN  /\ all_anchors[j] = all_anchors0[i]
                      /\ rpn_bbox_pred[j] = rpn_bbox_pred0[i]
                      /\ all_scores[j] = all_scores0[i]

\* C5, witness: of two anchors the first lies outside the image and is
\* dropped, the second is kept with its own offsets and score.
C5_Witness ==
    /\ pc = "filtered"
    /\ Len(all_anchors0) = 2 /\ KeptAnchors = {2}
    /\ rpn_bbox_pred0[1] # rpn_bbox_pred0[2] /\ all_scores0[1] # all_scores0[2]

(* ------------------------------- C10 ----------------------------------- *)
\* C10: each output entry j comes from one original index f[j], no index
\* twice: its box is decode(anchor, offset) of that index and its score the
\* score of that index.
C10_Pairing ==
    pc = "done" =>
        /\ Len(scores) = Len(proposals)
        /\ \E f \in [1..Len(proposals) -> 1..Len(all_anchors0)] :
              /\ \A j, k \in 1..Len(proposals) : j # k => f[j] # f[k]
              /\ \A j \in 1..Len(proposals) :
                    /\ proposals[j] = DecodedRow(f[j])
                    /\ scores[j] = all_scores0[f[j]]

\* C10, witness: two entries come out, in the other order than they came in,
\* with different boxes and different scores.
C10_Witness ==
    /\ pc = "done"
    /\ Len(proposals) = 2
    /\ proposals[1] = DecodedRow(2) /\ proposals[2] = DecodedRow(1)
    /\ proposals[1] # proposals[2] /\ scores[1] # scores[2]

(* ------------------------------- C9 ------------------------------------ *)
\* The candidate that descending score takes next, equal scores by position.
FirstByScoreThenPosition(S) ==
    CHOOSE c \in S : \A d \in S :
        \/ RLt(sorted_top_scores[d], sorted_top_scores[c])
        \/ (sorted_top_scores[d] = sorted_top_scores[c] /\ c <= d)

NonIncreasing(sq) == \A j \in 1..(Len(sq) - 1) : RLe(sq[j + 1], sq[j])

\* One round of NMS as C9 states it: the next candidate in score order, equal
\* scores by position, is accepted iff fewer than post_nms_top_n boxes are
\* accepted and its IoU with each of them is below nms_threshold.
C9_RoundAsStated ==
    (pc = "nms" /\ pc' = "nms") =>
        \/ UNCHANGED <<candidates, selected_indices>>
        \/ /\ candidates # {}
           /\ LET c == FirstByScoreThenPosition(candidates)
                  accept ==
                      /\ Len(selected_indices) < post_nms_top_n
                      /\ \A j \in 1..Len(selected_indices) :
                            RLt(ClaimIoU(sorted_top_proposals[c],
                                         sorted_top_proposals[selected_indices[j]]),
                                ClaimThreshold)
              IN  /\ candidates' = candidates \ {c}
                  /\ selected_indices' =
                        IF accept THEN Append(selected_indices, c)
                        ELSE selected_indices

\* One round of NMS, amended: a candidate of the highest score left (which
\* one, among equal scores, is not fixed) is accepted iff fewer than
\* post_nms_top_n boxes are accepted and its IoU with each of them is at most
\* nms_threshold.
C9_Round ==
    (pc = "nms" /\ pc' = "nms") =>
        \/ UNCHANGED <<candidates, selected_indices>>
        \/ \E c \in candidates :
              /\ \A d \in candidates : RLe(sorted_top_scores[d], sorted_top_scores[c])
              /\ candidates' = candidates \ {c}
              /\ LET accept ==
                         /\ Len(selected_indices) < post_nms_top_n
                         /\ \A j \in 1..Len(selected_indices) :
                               RLe(ClaimIoU(sorted_top_proposals[c],
                                            sorted_top_proposals[selected_indices[j]]),
                                   ClaimThreshold)
                 IN  selected_indices' =
                        IF accept THEN Append(selected_indices, c)
                        ELSE selected_indices

\* The output of NMS: the accepted boxes and their scores in acceptance
\* order, scores non-increasing, a candidate is left unconsidered only when
\* post_nms_top_n boxes are accepted.
C9_Output ==
    /\ pc \in {"sorted", "nms", "done"} => NonIncreasing(sorted_top_scores)
    /\ pc = "done" =>
          /\ proposals = gather(sorted_top_proposals, selected_indices)
          /\ scores = gather(sorted_top_scores, selected_indices)
          /\ NonIncreasing(scores)
          /\ candidates # {} => Len(selected_indices) >= post_nms_top_n

\* C9, as stated: greedy NMS in descending score order with equal scores by
\* position, acceptance iff below the threshold, and the highest-scoring
\* candidate (the first of the top-K list) is the first output whenever there
\* is a candidate and post_nms_top_n > 0.
C9_GreedyAsStated ==
    /\ [][C9_RoundAsStated]_vars
    /\ [](C9_Output)
    /\ [](pc = "done" /\ Len(sorted_top_scores) > 0 /\ post_nms_top_n > 0 =>
            /\ Len(proposals) > 0
            /\ proposals[1] = sorted_top_proposals[1]
            /\ scores[1] = sorted_top_scores[1])

\* C9, amended: greedy NMS in descending score order, the order among equal
\* scores left open, acceptance iff at most the threshold (IoU from corner
\* differences), output in acceptance order with non-increasing scores, and
\* a candidate of the highest score is the first output whenever there is a
\* candidate and post_nms_top_n > 0.
C9_Greedy ==
    /\ [][C9_Round]_vars
    /\ [](C9_Output)
    /\ [](pc = "done" /\ Len(sorted_top_scores) > 0 /\ post_nms_top_n > 0 =>
            /\ Len(proposals) > 0
            /\ scores[1] = sorted_top_scores[1]
            /\ \E c \in 1..Len(sorted_top_scores) :
                  /\ sorted_top_scores[c] = sorted_top_scores[1]
                  /\ proposals[1] = sorted_top_proposals[c])

\* C9, witness: of two candidates of different scores, with room for both,
\* the second was rejected for its overlap with the first.
C9_Witness ==
    /\ pc = "done"
    /\ Len(sorted_top_scores) = 2 /\ post_nms_top_n = 2
    /\ sorted_top_scores[1] # sorted_top_scores[2]
    /\ selected_indices = <<1>>

(* ------------------------------- C6 ------------------------------------ *)
grid_height == feature_map_shape[2]
grid_width == feature_map_shape[3]
num_references == Len(anchor_ratios) * Len(anchor_scales)
ShiftOf(x, y) == <<x * anchor_stride, y * anchor_stride,
                   x * anchor_stride, y * anchor_stride>>

\* C6, as stated: height * width * num_references anchors, the one at index
\* (y * grid_width + x) * num_references + r being reference anchor r moved by
\* (x * stride, y * stride, x * stride, y * stride).
C6_TiledAsStated ==
    pc = "gen_returned" =>
        /\ Len(anchor_reference) = num_references
        /\ Len(tiled_anchors) = grid_height * grid_width * num_references
        /\ \A y \in 0..(grid_height - 1), x \in 0..(grid_width - 1),
              r \in 1..num_references, c \in 1..4 :
              SRat(tiled_anchors[(y * grid_width + x) * num_references + r][c])
                  = SAdd(anchor_reference[r][c], SRat(RInt(ShiftOf(x, y)[c])))

\* C6, amended: height * width * num_references anchors, the one at index
\* (y * grid_width + x) * num_references + r being reference anchor r, each
\* coordinate truncated toward zero to an integer, moved by
\* (x * stride, y * stride, x * stride, y * stride).
C6_Tiled ==
    pc = "gen_returned" =>
        /\ Len(anchor_reference) = num_references
        /\ Len(tiled_anchors) = grid_height * grid_width * num_references
        /\ \A y \in 0..(grid_height - 1), x \in 0..(grid_width - 1),
              r \in 1..num_references, c \in 1..4 :
              tiled_anchors[(y * grid_width + x) * num_references + r][c]
                  = RInt(Trunc(anchor_reference[r][c]) + ShiftOf(x, y)[c])

\* C6, witness: the anchors of a feature map of 2 rows and 3 columns.
C6_Witness ==
    /\ pc = "gen_returned"
    /\ grid_height = 2 /\ grid_width = 3
    /\ Len(tiled_anchors) = 90

(* ----------------------------- C7, C8 ---------------------------------- *)
ClaimWidth(scale, ratio) ==
    SMul(SDiv(SRat(scale), Sqrt(ratio)), SRat(RInt(base_size)))
ClaimHeight(scale, ratio) ==
    SMul(SMul(SRat(scale), Sqrt(ratio)), SRat(RInt(base_size)))
\* [-(width - 1)/2, -(height - 1)/2, (width - 1)/2, (height - 1)/2]
ClaimBox(scale, ratio) ==
    LET hw == SMul(SSub(ClaimWidth(scale, ratio), SRat(One)), SRat(Half))
        hh == SMul(SSub(ClaimHeight(scale, ratio), SRat(One)), SRat(Half))
    IN  <<SNeg(hw), SNeg(hh), hw, hh>>

RefStacked == pc \in {"ref_stacked", "ref_returned", "ref_raised"}

\* C7, as stated: |ratios| * |scales| reference anchors, scales the outer
\* index and ratios the inner: the anchor at s * |ratios| + a is the box of
\* scales[s] and aspect_ratios[a] (indices from 0).
C7_ScalesOuter ==
    RefStacked =>
        /\ Len(anchors) = Len(aspect_ratios) * Len(scales)
        /\ \A s \in 1..Len(scales), a \in 1..Len(aspect_ratios) :
              anchors[(s - 1) * Len(aspect_ratios) + a]
                  = ClaimBox(scales[s], aspect_ratios[a])

\* C7, amended: |ratios| * |scales| reference anchors, ratios the outer index
\* and scales the inner: the anchor at a * |scales| + s is the box of
\* scales[s] and aspect_ratios[a] (indices from 0), with height = scale *
\* sqrt(ratio) * base_size and width = scale / sqrt(ratio) * base_size.
C7_RatiosOuter ==
    RefStacked =>
        /\ Len(anchors) = Len(aspect_ratios) * Len(scales)
        /\ \A s \in 1..Len(scales), a \in 1..Len(aspect_ratios) :
              anchors[(a - 1) * Len(scales) + s]
                  = ClaimBox(scales[s], aspect_ratios[a])

\* C7, witness: two different ratios and two different scales, anchors
\* returned.
C7_Witness ==
    /\ pc = "ref_returned"
    /\ Len(aspect_ratios) = 2 /\ Len(scales) = 2
    /\ aspect_ratios[1] # aspect_ratios[2] /\ scales[1] # scales[2]

RefEnded == pc \in {"ref_returned", "ref_raised"}
ReturnsOrRaises ==
    /\ pc = "ref_raised" => ref_returned = <<>>
    /\ pc = "ref_returned" => ref_returned = <<anchors>>

\* C8, as stated: the 'base_size is too small' error is raised exactly when
\* some width or height, cast to an integer, is zero; otherwise the boxes are
\* returned; nothing is returned on failure.
C8_RaisedWhenSizeCastsToZero ==
    RefEnded =>
        /\ ReturnsOrRaises
        /\ pc = "ref_raised" <=>
              \E s \in 1..Len(scales), a \in 1..Len(aspect_ratios) :
                  \/ Trunc(ClaimWidth(scales[s], aspect_ratios[a])) = 0
                  \/ Trunc(ClaimHeight(scales[s], aspect_ratios[a])) = 0

\* C8, amended: the error is raised exactly when some reference anchor's
\* x_max - x_min (its width - 1) or y_max - y_min (its height - 1), cast to
\* an integer, is zero, that is when some width or height is below 2;
\* otherwise the boxes are returned; nothing is returned on failure.
C8_RaisedWhenSizeBelowTwo ==
    RefEnded =>
        /\ ReturnsOrRaises
        /\ pc = "ref_raised" <=>
              \E s \in 1..Len(scales), a \in 1..Len(aspect_ratios) :
                  \/ SLt(ClaimWidth(scales[s], aspect_ratios[a]), SRat(<<2, 1>>))
                  \/ SLt(ClaimHeight(scales[s], aspect_ratios[a]), SRat(<<2, 1>>))

\* C8, witness: the error is raised for one anchor whose width and height
\* both cast to a non-zero integer.
C8_Witness ==
    /\ pc = "ref_raised"
    /\ Len(scales) = 1 /\ Len(aspect_ratios) = 1
    /\ Trunc(ClaimWidth(scales[1], aspect_ratios[1])) # 0
    /\ Trunc(ClaimHeight(scales[1], aspect_ratios[1])) # 0

====
